---- MODULE Spec2Model ----
(***************************************************************************)
(* Model of src/app.py, the Bakken Well Intelligence Hub script: the web   *)
(* harvest (fetch_scrape_and_process), its cleaning (clean_scraped_data),  *)
(* the delimited-file pipeline (load_and_process_data) and the module      *)
(* level run that strings them together and renders the tabs.              *)
(*                                                                         *)
(* A pandas DataFrame is a record [cols, rows]: cols is the sequence of    *)
(* column names, rows a sequence of functions from column name to cell.    *)
(* A nullable cell is a sequence of length 0 (NaN / NaT) or 1 (a value);   *)
(* a date is <<year, month, day>>, and NaT is <<>>.  A raw text cell is a  *)
(* sequence of one-character strings.                                      *)
(***************************************************************************)
EXTENDS Integers, Sequences, FiniteSets, TLC

VARIABLES
    pc,           \* position of the script run
    error,        \* "none", or the exception that ended the run
    events,       \* what the run has done so far, in order
    dropdown,     \* the <option> elements of select[name=menu1], in page order
    pages,        \* value -> response of the POST for that value
    formations,   \* the dict built at lines 55-56, as a sequence of <<name, value>>
    all_data,     \* the list all_data of per-formation frames
    raw_web_data, \* result of fetch_scrape_and_process()
    cleaned_web,  \* result of clean_scraped_data()
    missing,      \* the local sources that are absent
    prodCsv,      \* rows of monthly_production.csv
    headerCsv,    \* rows of well_header.csv
    prod_df,      \* prod_df of load_and_process_data
    header_df,    \* header_df of load_and_process_data
    peak,         \* peak of load_and_process_data
    post_peak,    \* post_peak of load_and_process_data (a named Series)
    merged_df     \* merged of load_and_process_data

vars == <<pc, error, events, dropdown, pages, formations, all_data, raw_web_data,
          cleaned_web, missing, prodCsv, headerCsv, prod_df, header_df, peak,
          post_peak, merged_df>>

webVars  == <<dropdown, pages, formations, all_data, raw_web_data, cleaned_web>>
loadVars == <<prod_df, header_df, peak, post_peak, merged_df>>
inVars   == <<missing, prodCsv, headerCsv>>

-----------------------------------------------------------------------------
(* Bounds of the model.                                                    *)

MaxOptions == 2
MaxTableRows == 2
MaxProdRows == 3
MaxHeaderRows == 2

-----------------------------------------------------------------------------
(* Sequences and nullable cells.                                           *)

Range(s) == {s[i] : i \in 1..Len(s)}

SeqsUpTo(S, n) == UNION {[1..k -> S] : k \in 0..n}

NaN == <<>>
NaT == <<>>
Some(v) == <<v>>

RECURSIVE SumSeq(_)
SumSeq(s) == IF s = <<>> THEN 0 ELSE Head(s) + SumSeq(Tail(s))

RECURSIVE SortedSeq(_)
SortedSeq(S) ==
    IF S = {} THEN <<>>
    ELSE LET m == CHOOSE x \in S : \A y \in S : x <= y
         IN  <<m>> \o SortedSeq(S \ {m})

RECURSIVE Flatten(_)
Flatten(ss) == IF ss = <<>> THEN <<>> ELSE Head(ss) \o Flatten(Tail(ss))

-----------------------------------------------------------------------------
(* DataFrames.                                                             *)

EmptyFrame == [cols |-> <<>>, rows |-> <<>>]

ColSet(df) == Range(df.cols)

HasCol(df, c) == c \in ColSet(df)

\* df[c], a Series: the cells of one column in row order.
Column(df, c) == [i \in 1..Len(df.rows) |-> df.rows[i][c]]

\* df[c] = vals: assigns a column, appending its name when it is new.
SetCol(df, c, vals) ==
    [cols |-> IF HasCol(df, c) THEN df.cols ELSE Append(df.cols, c),
     rows |-> [i \in 1..Len(df.rows) |-> (c :> vals[i]) @@ df.rows[i]]]

\* df[[c1, c2, ...]]
Project(df, cs) ==
    [cols |-> cs,
     rows |-> [i \in 1..Len(df.rows) |-> [c \in Range(cs) |-> df.rows[i][c]]]]

\* df.rename(columns={old: new}): a name that is no column is ignored.
Rename(df, old, new) ==
    LET nm(c) == IF c = old THEN new ELSE c
    IN  [cols |-> [i \in 1..Len(df.cols) |-> nm(df.cols[i])],
         rows |-> [i \in 1..Len(df.rows) |->
                     [c \in {nm(k) : k \in ColSet(df)} |->
                        df.rows[i][CHOOSE k \in ColSet(df) : nm(k) = c]]]]

\* pandas' suffix rule for the columns two merged frames share besides the key.
MergedLeftName(left, right, on, c) ==
    IF c \in (ColSet(left) \cap ColSet(right)) \ {on} THEN c \o "_x" ELSE c

MergedRightName(left, right, on, c) ==
    IF c \in (ColSet(left) \cap ColSet(right)) \ {on} THEN c \o "_y" ELSE c

\* pd.merge(left, right, on=on, how=how), how in {"inner", "left"}.  The rows
\* keep the order of the left frame; each left row is paired with every right
\* row of the same key, in the right frame's order.  Under how="left" the
\* right-hand columns become nullable.
Merge(left, right, on, how) ==
    LET ln(c) == MergedLeftName(left, right, on, c)
        rn(c) == MergedRightName(left, right, on, c)
        rcols == SelectSeq(right.cols, LAMBDA c : c # on)
        lset  == {ln(c) : c \in ColSet(left)}
        rset  == {rn(c) : c \in Range(rcols)}
        wrap(v) == IF how = "left" THEN Some(v) ELSE v
        pair(l, r) ==
            [c \in lset \cup rset |->
                IF c \in lset
                THEN l[CHOOSE k \in ColSet(left) : ln(k) = c]
                ELSE wrap(r[CHOOSE k \in Range(rcols) : rn(k) = c])]
        alone(l) ==
            [c \in lset \cup rset |->
                IF c \in lset
                THEN l[CHOOSE k \in ColSet(left) : ln(k) = c]
                ELSE NaN]
        matches(l) == SelectSeq(right.rows, LAMBDA r : r[on] = l[on])
        expand(l) ==
            LET ms == matches(l)
            IN  IF ms = <<>>
                THEN IF how = "left" THEN <<alone(l)>> ELSE <<>>
                ELSE [j \in 1..Len(ms) |-> pair(l, ms[j])]
    IN  [cols |-> [i \in 1..Len(left.cols) |-> ln(left.cols[i])]
                  \o [i \in 1..Len(rcols) |-> rn(rcols[i])],
         rows |-> Flatten([i \in 1..Len(left.rows) |-> expand(left.rows[i])])]

-----------------------------------------------------------------------------
(* Dates.                                                                  *)

IsLeap(y) == ((y % 4) = 0 /\ (y % 100) # 0) \/ (y % 400) = 0

DaysInMonth(y, m) ==
    IF m = 2 THEN (IF IsLeap(y) THEN 29 ELSE 28)
    ELSE IF m \in {4, 6, 9, 11} THEN 30 ELSE 31

\* Days since 1970-01-01 of a calendar date.
DaysFromCivil(d) ==
    LET y   == IF d[2] <= 2 THEN d[1] - 1 ELSE d[1]
        era == y \div 400
        yoe == y - era * 400
        mp  == (d[2] + 9) % 12
        doy == ((153 * mp + 2) \div 5) + d[3] - 1
        doe == yoe * 365 + (yoe \div 4) - (yoe \div 100) + doy
    IN  era * 146097 + doe - 719468

DateLE(a, b) ==
    \/ a[1] < b[1]
    \/ a[1] = b[1] /\ a[2] < b[2]
    \/ a[1] = b[1] /\ a[2] = b[2] /\ a[3] <= b[3]

DateLT(a, b) == DateLE(a, b) /\ a # b

\* date + pd.DateOffset(months=n): calendar months, the day clipped to the
\* length of the target month.
AddMonths(d, n) ==
    LET k  == d[1] * 12 + (d[2] - 1) + n
        y  == k \div 12
        m  == (k % 12) + 1
        dd == IF d[3] > DaysInMonth(y, m) THEN DaysInMonth(y, m) ELSE d[3]
    IN  <<y, m, dd>>

DigitVal ==
    "0" :> 0 @@ "1" :> 1 @@ "2" :> 2 @@ "3" :> 3 @@ "4" :> 4 @@
    "5" :> 5 @@ "6" :> 6 @@ "7" :> 7 @@ "8" :> 8 @@ "9" :> 9

IsDigits(s) == \A i \in 1..Len(s) : s[i] \in DOMAIN DigitVal

RECURSIVE DecimalValue(_)
DecimalValue(s) ==
    IF s = <<>> THEN 0
    ELSE 10 * DecimalValue(SubSeq(s, 1, Len(s) - 1)) + DigitVal[s[Len(s)]]

\* pd.to_datetime(text, errors='coerce') on one cell: a YYYY-MM-DD text that
\* names a calendar day gives that day, anything else (the empty cell
\* included) gives NaT.
ToDatetimeCell(s) ==
    IF /\ Len(s) = 10
       /\ s[5] = "-" /\ s[8] = "-"
       /\ IsDigits(SubSeq(s, 1, 4) \o SubSeq(s, 6, 7) \o SubSeq(s, 9, 10))
    THEN LET y == DecimalValue(SubSeq(s, 1, 4))
             m == DecimalValue(SubSeq(s, 6, 7))
             d == DecimalValue(SubSeq(s, 9, 10))
         IN  IF m \in 1..12 /\ d >= 1 /\ d <= DaysInMonth(y, m)
             THEN <<y, m, d>> ELSE NaT
    ELSE NaT

\* pd.to_datetime(series, errors='coerce').
ToDatetime(series) == [i \in 1..Len(series) |-> ToDatetimeCell(series[i])]

\* pd.to_numeric(text.replace(',', ''), errors='coerce') on one cell.
ToNumericCell(s) ==
    LET t == SelectSeq(s, LAMBDA c : c # ",")
    IN  IF t # <<>> /\ IsDigits(t) THEN Some(DecimalValue(t)) ELSE NaN

\* pd.to_numeric(series.astype(str).str.replace(',', ''), errors='coerce').
ToNumeric(series) == [i \in 1..Len(series) |-> ToNumericCell(series[i])]

-----------------------------------------------------------------------------
(* fetch_scrape_and_process (lines 48-71) and clean_scraped_data (73-80).  *)

Event(op, arg) == [op |-> op, arg |-> arg]

Sentinel == "SF"

WebCols == <<"File No", "Operator", "Completion Date", "Last Prod Rpt Date",
             "Cum Oil", "Cum Water", "Cum Gas">>

\* str.strip() of a text.
RECURSIVE LStrip(_)
LStrip(s) == IF s # <<>> /\ Head(s) = " " THEN LStrip(Tail(s)) ELSE s

RECURSIVE RStrip(_)
RStrip(s) ==
    IF s # <<>> /\ s[Len(s)] = " " THEN RStrip(SubSeq(s, 1, Len(s) - 1)) ELSE s

Strip(s) == RStrip(LStrip(s))

\* formations[name] = value on the dict so far: a name already present keeps
\* its position and takes the new value, a new name goes to the end.
DictPut(d, name, value) ==
    IF \E i \in 1..Len(d) : d[i][1] = name
    THEN [i \in 1..Len(d) |-> IF d[i][1] = name THEN <<name, value>> ELSE d[i]]
    ELSE Append(d, <<name, value>>)

\* The dict comprehension of lines 55-56 over the options in page order.
RECURSIVE FormationsFrom(_, _)
FormationsFrom(options, d) ==
    IF options = <<>> THEN d
    ELSE LET o == Head(options)
         IN  FormationsFrom(Tail(options),
                 IF o.value # Sentinel THEN DictPut(d, Strip(o.text), o.value) ELSE d)

Formations(options) == FormationsFrom(options, <<>>)

\* Lines 64-67: the frame of one response's table, tagged with the formation.
TableFrame(page, name) ==
    [cols |-> Append(page.headers, "Formation"),
     rows |-> [i \in 1..Len(page.rows) |->
                 [c \in Range(page.headers) \cup {"Formation"} |->
                    IF c = "Formation" THEN name
                    ELSE Strip(page.rows[i][CHOOSE k \in 1..Len(page.headers) :
                                               page.headers[k] = c])]]]

\* Line 70: pd.concat(all_data, ignore_index=True), or pd.DataFrame().
ConcatFrames(frames) ==
    IF frames = <<>> THEN EmptyFrame
    ELSE [cols |-> frames[1].cols,
          rows |-> Flatten([i \in 1..Len(frames) |-> frames[i].rows])]

\* Duplicates judged on every column but Formation.
DropDuplicatesIgnoringFormation(df) ==
    LET same(a, b) == \A c \in ColSet(df) \ {"Formation"} : a[c] = b[c]
        keep == {i \in 1..Len(df.rows) :
                    \A j \in 1..(i - 1) : ~same(df.rows[j], df.rows[i])}
        idx  == SortedSeq(keep)
    IN  [cols |-> df.cols, rows |-> [k \in 1..Len(idx) |-> df.rows[idx[k]]]]

\* df.drop_duplicates(): a row equal on every column to an earlier one goes.
DropDuplicates(df) ==
    LET keep == {i \in 1..Len(df.rows) : \A j \in 1..(i - 1) : df.rows[j] # df.rows[i]}
        idx  == SortedSeq(keep)
    IN  [cols |-> df.cols, rows |-> [k \in 1..Len(idx) |-> df.rows[idx[k]]]]

\* .dt.year of one cell.
YearOf(d) == IF d = NaT THEN NaN ELSE Some(d[1])

CleanedCols == <<"Completion Date", "Last Prod Rpt Date", "Cum Oil", "Cum Water", "Cum Gas">>

\* .dt.year of a Series of dates.
YearSeries(series) == [i \in 1..Len(series) |-> YearOf(series[i])]

\* Lines 74-77: the dates and the cumulative volumes typed.
NormalizeCells(df) ==
    LET d1 == SetCol(df, "Completion Date", ToDatetime(Column(df, "Completion Date")))
        d2 == SetCol(d1, "Last Prod Rpt Date",
                     ToDatetime(Column(d1, "Last Prod Rpt Date")))
        d3 == SetCol(d2, "Cum Oil", ToNumeric(Column(d2, "Cum Oil")))
        d4 == SetCol(d3, "Cum Water", ToNumeric(Column(d3, "Cum Water")))
    IN  SetCol(d4, "Cum Gas", ToNumeric(Column(d4, "Cum Gas")))

\* The body of clean_scraped_data on a frame that has the columns it reads.
CleanScrapedData(df) ==
    LET d6 == DropDuplicates(NormalizeCells(df))
    IN  SetCol(d6, "Completion Year", YearSeries(Column(d6, "Completion Date")))

\* The first of the columns cs that df lacks, as a one-element sequence.
FirstMissing(df, cs) ==
    LET miss == SelectSeq(cs, LAMBDA c : ~HasCol(df, c))
    IN  IF miss = <<>> THEN <<>> ELSE <<miss[1]>>

PostCount == Cardinality({i \in 1..Len(events) : events[i].op = "POST"})

\* Lines 50-56: the page is fetched and the dict of formations built.
FetchDropdown ==
    /\ pc = "fetch"
    /\ formations' = Formations(dropdown)
    /\ events' = Append(events, Event("GET", ""))
    /\ pc' = "post"
    /\ UNCHANGED <<dropdown, pages, all_data, raw_web_data, cleaned_web, error,
                   inVars, loadVars>>

\* Lines 59-68: one turn of the loop over formations.items().
PostCategory ==
    /\ pc = "post"
    /\ PostCount < Len(formations)
    /\ LET name  == formations[PostCount + 1][1]
           value == formations[PostCount + 1][2]
       IN  /\ events' = Append(events, Event("POST", value))
           /\ all_data' = IF pages[value].table
                          THEN Append(all_data, TableFrame(pages[value], name))
                          ELSE all_data
    /\ UNCHANGED <<pc, dropdown, pages, formations, raw_web_data, cleaned_web, error,
                   inVars, loadVars>>

\* Lines 70-71, and the assignment of line 113.
Concat ==
    /\ pc = "post"
    /\ PostCount = Len(formations)
    /\ raw_web_data' = ConcatFrames(all_data)
    /\ pc' = "clean"
    /\ UNCHANGED <<events, dropdown, pages, formations, all_data, cleaned_web, error,
                   inVars, loadVars>>

\* Line 114: clean_scraped_data works on the frame in place and returns it; a
\* column it reads that the frame lacks raises KeyError.
Clean ==
    /\ pc = "clean"
    /\ LET miss == FirstMissing(raw_web_data, CleanedCols)
       IN  IF miss # <<>>
           THEN /\ error' = "KeyError"
                /\ pc' = "failed"
                /\ events' = Append(events, Event("raise", miss[1]))
                /\ UNCHANGED <<raw_web_data, cleaned_web>>
           ELSE /\ cleaned_web' = CleanScrapedData(raw_web_data)
                /\ raw_web_data' = CleanScrapedData(raw_web_data)
                /\ pc' = "read_prod"
                /\ events' = Append(events, Event("clean", ""))
                /\ UNCHANGED error
    /\ UNCHANGED <<dropdown, pages, formations, all_data, inVars, loadVars>>

NextHarvest == FetchDropdown \/ PostCategory \/ Concat \/ Clean

-----------------------------------------------------------------------------
(* load_and_process_data (lines 82-110).                                   *)

ProdCols == <<"well_id", "year", "month", "production">>
HeaderCols == <<"well_id", "county", "spud_date", "completion_date">>

PeakWindowMonths == 3

\* pd.read_csv(f, delimiter='|') of the production member (line 87).
ReadProdCsv(csv) == [cols |-> ProdCols, rows |-> csv]

\* pd.read_csv("well_header.csv", delimiter='|') (line 89).
ReadHeaderCsv(csv) == [cols |-> HeaderCols, rows |-> csv]

\* The difference with a negative result clamped to zero.
TimedeltaDaysClamped(a, b) ==
    IF a = NaT \/ b = NaT THEN NaN
    ELSE IF DaysFromCivil(a) < DaysFromCivil(b) THEN Some(0)
    ELSE Some(DaysFromCivil(a) - DaysFromCivil(b))

\* (completion - spud).dt.days of one row (line 94): NaN when either is NaT.
TimedeltaDays(a, b) ==
    IF a = NaT \/ b = NaT THEN NaN ELSE Some(DaysFromCivil(a) - DaysFromCivil(b))

\* (completion - spud).dt.days of two Series of dates.
DaysBetween(completion, spud) ==
    [i \in 1..Len(completion) |-> TimedeltaDays(completion[i], spud[i])]

\* Lines 92-94: the two dates parsed, cycle_time derived.
WithCycleTime(hdr) ==
    LET h1 == SetCol(hdr, "spud_date", ToDatetime(Column(hdr, "spud_date")))
        h2 == SetCol(h1, "completion_date", ToDatetime(Column(h1, "completion_date")))
    IN  SetCol(h2, "cycle_time",
               DaysBetween(Column(h2, "completion_date"), Column(h2, "spud_date")))

\* Line 96: date = first day of (year, month).
WithDate(prod) ==
    SetCol(prod, "date",
           [i \in 1..Len(prod.rows) |-> <<prod.rows[i]["year"], prod.rows[i]["month"], 1>>])

\* The keys of groupby('well_id'), which pandas sorts.
GroupKeys(df) == SortedSeq({df.rows[i]["well_id"] : i \in 1..Len(df.rows)})

\* Series.idxmax of one group: a scan that keeps the first largest value.
RECURSIVE IdxMaxFrom(_, _, _, _)
IdxMaxFrom(rows, w, i, best) ==
    IF i > Len(rows) THEN best
    ELSE IF rows[i]["well_id"] # w THEN IdxMaxFrom(rows, w, i + 1, best)
    ELSE IF best = 0 \/ rows[i]["production"] > rows[best]["production"]
         THEN IdxMaxFrom(rows, w, i + 1, i)
         ELSE IdxMaxFrom(rows, w, i + 1, best)

\* A scan that keeps the last largest value instead of the first.
RECURSIVE IdxMaxLastFrom(_, _, _, _)
IdxMaxLastFrom(rows, w, i, best) ==
    IF i > Len(rows) THEN best
    ELSE IF rows[i]["well_id"] # w THEN IdxMaxLastFrom(rows, w, i + 1, best)
    ELSE IF best = 0 \/ rows[i]["production"] >= rows[best]["production"]
         THEN IdxMaxLastFrom(rows, w, i + 1, i)
         ELSE IdxMaxLastFrom(rows, w, i + 1, best)

IdxMaxLast(rows, w) == IdxMaxLastFrom(rows, w, 1, 0)

IdxMax(rows, w) == IdxMaxFrom(rows, w, 1, 0)

\* Lines 99-101: one row per well, with the window [start_date, end_date).
PeakFrame(prod) ==
    LET keys == GroupKeys(prod)
        loc  == [cols |-> prod.cols,
                 rows |-> [k \in 1..Len(keys) |-> prod.rows[IdxMax(prod.rows, keys[k])]]]
        p1   == SetCol(loc, "start_date", Column(loc, "date"))
    IN  SetCol(p1, "end_date",
               [i \in 1..Len(p1.rows) |->
                   AddMonths(p1.rows[i]["start_date"], PeakWindowMonths)])

\* date >= start_date on one row of prod_with_peak; False against NaT.
AtOrAfterStartOpen(r) ==
    r["start_date"] # NaN /\ DateLT(r["start_date"][1], r["date"])

AtOrAfterStart(r) ==
    r["start_date"] # NaN /\ DateLE(r["start_date"][1], r["date"])

\* date < end_date on one row of prod_with_peak; False against NaT.
BeforeEndClosed(r) ==
    r["end_date"] # NaN /\ DateLE(r["date"], r["end_date"][1])

BeforeEnd(r) ==
    r["end_date"] # NaN /\ DateLT(r["date"], r["end_date"][1])

\* Line 104.
InWindow(r) == AtOrAfterStart(r) /\ BeforeEnd(r)

\* Lines 103-106: the Series named production, indexed by well_id.
PostPeakSeries(prod, pk) ==
    LET pwp  == Merge(prod, Project(pk, <<"well_id", "start_date", "end_date">>),
                      "well_id", "left")
        win  == SelectSeq(pwp.rows, InWindow)
        keys == SortedSeq({win[i]["well_id"] : i \in 1..Len(win)})
        grp(w) == SelectSeq(win, LAMBDA r : r["well_id"] = w)
        tot(w) == SumSeq([i \in 1..Len(grp(w)) |-> grp(w)[i]["production"]])
    IN  [cols |-> <<"well_id", "production">>,
         rows |-> [k \in 1..Len(keys) |->
                     [c \in {"well_id", "production"} |->
                        IF c = "well_id" THEN keys[k] ELSE tot(keys[k])]]]

\* The first merge done as a left merge.
MergedFrameKeepAll(prod, hdr, pp) ==
    Rename(Merge(Merge(prod, hdr, "well_id", "left"), pp, "well_id", "left"),
           "production_y", "post_peak_90_day")

\* Lines 98, 107, 108: the inner merge, the left merge of the Series, the rename.
MergedFrame(prod, hdr, pp) ==
    Rename(Merge(Merge(prod, hdr, "well_id", "inner"), pp, "well_id", "left"),
           "production_y", "post_peak_90_day")

\* Lines 85-87: the archive and its member are opened and the member parsed.
ReadProduction ==
    /\ pc = "read_prod"
    /\ IF "zip" \in missing
       THEN /\ error' = "FileNotFoundError"
            /\ pc' = "failed"
            /\ events' = Append(events, Event("raise", "monthly_production.csv.zip"))
            /\ UNCHANGED prod_df
       ELSE IF "member" \in missing
       THEN /\ error' = "KeyError"
            /\ pc' = "failed"
            /\ events' = Append(events, Event("raise", "monthly_production.csv"))
            /\ UNCHANGED prod_df
       ELSE /\ prod_df' = ReadProdCsv(prodCsv)
            /\ pc' = "read_header"
            /\ events' = Append(events, Event("parse", "monthly_production.csv"))
            /\ UNCHANGED error
    /\ UNCHANGED <<webVars, inVars, header_df, peak, post_peak, merged_df>>

\* Line 89 without the failure when the file is absent.
ReadHeaderAnyway ==
    /\ pc = "read_header"
    /\ header_df' = ReadHeaderCsv(headerCsv)
    /\ pc' = "derive"
    /\ events' = Append(events, Event("parse", "well_header.csv"))
    /\ UNCHANGED <<webVars, inVars, error, prod_df, peak, post_peak, merged_df>>

\* Line 89.
ReadHeader ==
    /\ pc = "read_header"
    /\ IF "header" \in missing
       THEN /\ error' = "FileNotFoundError"
            /\ pc' = "failed"
            /\ events' = Append(events, Event("raise", "well_header.csv"))
            /\ UNCHANGED header_df
       ELSE /\ header_df' = ReadHeaderCsv(headerCsv)
            /\ pc' = "derive"
            /\ events' = Append(events, Event("parse", "well_header.csv"))
            /\ UNCHANGED error
    /\ UNCHANGED <<webVars, inVars, prod_df, peak, post_peak, merged_df>>

\* Lines 92-110.
Derive ==
    /\ pc = "derive"
    /\ LET hdr  == WithCycleTime(header_df)
           prod == WithDate(prod_df)
           pk   == PeakFrame(prod)
           pp   == PostPeakSeries(prod, pk)
       IN  /\ header_df' = hdr
           /\ prod_df' = prod
           /\ peak' = pk
           /\ post_peak' = pp
           /\ merged_df' = MergedFrame(prod, hdr, pp)
    /\ pc' = "tabs"
    /\ events' = Append(events, Event("derive", ""))
    /\ UNCHANGED <<webVars, inVars, error>>

NextLoad == ReadProduction \/ ReadHeader \/ Derive

-----------------------------------------------------------------------------
(* Inputs of the delimited-file pipeline.                                  *)

WellIds == {1, 2}

\* Months that put a row before, inside and after a three-month window, and
\* a window across the turn of the year.
ProdMonths == {<<2019, 12>>, <<2020, 1>>, <<2020, 3>>}

\* Monthly volumes; a negative one, which the loader does not reject, is
\* tried on the first well.
ProdValues == {-1, 1, 2}

ProdRows ==
    {r \in [well_id : WellIds, year : {2019, 2020}, month : {1, 3, 12},
            production : ProdValues] :
        /\ <<r.year, r.month>> \in ProdMonths
        /\ r.production < 0 => r.well_id = 1}

\* The end-to-end scenario of the specification, section 8.
ScenarioProd ==
    [i \in 1..5 |-> [well_id |-> 1, year |-> 2020, month |-> i,
                     production |-> <<100, 500, 200, 50, 10>>[i]]]

Txt_2020_01_01 == <<"2", "0", "2", "0", "-", "0", "1", "-", "0", "1">>
Txt_2020_03_01 == <<"2", "0", "2", "0", "-", "0", "3", "-", "0", "1">>
Txt_2020_02_30 == <<"2", "0", "2", "0", "-", "0", "2", "-", "3", "0">>
Txt_Empty == <<>>
Txt_Garbage == <<"n", "/", "a">>

HeaderRow(w, c, s, d) ==
    [well_id |-> w, county |-> c, spud_date |-> s, completion_date |-> d]

\* well_header.csv carries one row per well: its key is unique.
UniqueKeys(rows) ==
    \A i, j \in 1..Len(rows) : rows[i]["well_id"] = rows[j]["well_id"] => i = j

PlainHeaders ==
    {<<HeaderRow(1, "c1", Txt_2020_01_01, Txt_2020_03_01)>>,
     <<HeaderRow(2, "c2", Txt_2020_01_01, Txt_2020_03_01),
       HeaderRow(1, "c1", Txt_2020_01_01, Txt_2020_03_01)>>}

InitLoadState ==
    /\ pc = "read_prod"
    /\ error = "none"
    /\ events = <<>>
    /\ dropdown = <<>>
    /\ pages = <<>>
    /\ formations = <<>>
    /\ all_data = <<>>
    /\ raw_web_data = EmptyFrame
    /\ cleaned_web = EmptyFrame
    /\ prod_df = EmptyFrame
    /\ header_df = EmptyFrame
    /\ peak = EmptyFrame
    /\ post_peak = EmptyFrame
    /\ merged_df = EmptyFrame

InitPeak ==
    /\ InitLoadState
    /\ missing = {}
    /\ prodCsv \in SeqsUpTo(ProdRows, MaxProdRows) \cup {ScenarioProd}
    /\ headerCsv \in PlainHeaders

SpecPeak == InitPeak /\ [][NextLoad]_vars

HeaderWellIds == {1, 2, 3}

DateTexts == {Txt_2020_01_01, Txt_2020_03_01, Txt_2020_02_30, Txt_Empty, Txt_Garbage}

HeaderRows ==
    {HeaderRow(w, "c1", s, d) : w \in HeaderWellIds, s \in DateTexts, d \in DateTexts}

InitCycle ==
    /\ InitLoadState
    /\ missing = {}
    /\ prodCsv = <<[well_id |-> 1, year |-> 2020, month |-> 1, production |-> 2]>>
    /\ headerCsv \in {h \in SeqsUpTo(HeaderRows, MaxHeaderRows) : UniqueKeys(h)}

SpecCycle == InitCycle /\ [][NextLoad]_vars

-----------------------------------------------------------------------------
(* Inputs of the harvest.                                                  *)

Values == {"v1", "v2"}

OptionTexts == {<<"A">>, <<"B", " ">>}

Options == {[text |-> t, value |-> v] : t \in OptionTexts, v \in Values \cup {Sentinel}}

Txt_2020_05_14 == <<"2", "0", "2", "0", "-", "0", "5", "-", "1", "4">>

\* The <td> texts of one body row, in the order of WebCols.
WebCells(fileNo, operator, completion, cumOil) ==
    <<fileNo, operator, completion, Txt_2020_05_14, cumOil, <<"7">>, <<"n", "/", "a">>>>

\* Two rows that differ only in the thousands separator, and a third well.
WebRows ==
    {WebCells(<<"1">>, <<"X">>, Txt_2020_05_14, <<"1", ",", "2">>),
     WebCells(<<"1">>, <<"X">>, Txt_2020_05_14, <<"1", "2">>),
     WebCells(<<"2">>, <<"Y">>, Txt_Garbage, <<"n", "/", "a">>)}

\* The rows of WebRows, once each.
SortedRows(S) ==
    CHOOSE q \in [1..Cardinality(S) -> S] : \A x \in S : \E i \in DOMAIN q : q[i] = x

NoTable == [table |-> FALSE, headers |-> <<>>, rows |-> <<>>]

TablePage(rows) == [table |-> TRUE, headers |-> WebCols, rows |-> rows]

PageSet == {NoTable} \cup {TablePage(r) : r \in SeqsUpTo(WebRows, MaxTableRows)}

InitWebState ==
    /\ pc = "fetch"
    /\ error = "none"
    /\ events = <<>>
    /\ formations = <<>>
    /\ all_data = <<>>
    /\ raw_web_data = EmptyFrame
    /\ cleaned_web = EmptyFrame
    /\ prod_df = EmptyFrame
    /\ header_df = EmptyFrame
    /\ peak = EmptyFrame
    /\ post_peak = EmptyFrame
    /\ merged_df = EmptyFrame

InitHarvest ==
    /\ InitWebState
    /\ dropdown \in SeqsUpTo(Options, MaxOptions)
    /\ pages \in {p \in [Values -> PageSet] :
                    Len(p["v1"].rows) + Len(p["v2"].rows) <= MaxTableRows}
    /\ missing = {}
    /\ prodCsv = <<>>
    /\ headerCsv = <<>>

SpecHarvest == InitHarvest /\ [][NextHarvest]_vars

-----------------------------------------------------------------------------
(* The module-level run (lines 113-212).                                   *)

\* The columns the five tabs read, in the order the script reads them.
TabReads ==
    <<<<"web", "Operator">>, <<"web", "Formation">>, <<"web", "Completion Year">>,
      <<"web", "File No">>,
      <<"header", "county">>, <<"header", "cycle_time">>,
      <<"merged", "county">>, <<"merged", "production">>,
      <<"merged", "well_id">>, <<"merged", "post_peak_90_day">>>>

TabFrame(which) ==
    IF which = "web" THEN cleaned_web
    ELSE IF which = "header" THEN header_df ELSE merged_df

\* Lines 118-212: the tabs are rendered in order; the first column a tab reads
\* that its frame lacks raises KeyError and ends the run.
RenderTabs ==
    /\ pc = "tabs"
    /\ LET bad == SelectSeq(TabReads, LAMBDA t : ~HasCol(TabFrame(t[1]), t[2]))
       IN  IF bad # <<>>
           THEN /\ error' = "KeyError"
                /\ pc' = "failed"
                /\ events' = Append(events, Event("raise", bad[1][2]))
           ELSE /\ pc' = "done"
                /\ events' = Append(events, Event("render", ""))
                /\ UNCHANGED error
    /\ UNCHANGED <<webVars, inVars, loadVars>>

Next ==
    \/ FetchDropdown
    \/ PostCategory
    \/ Concat
    \/ Clean
    \/ ReadProduction
    \/ ReadHeader
    \/ Derive
    \/ RenderTabs

Sources == {"zip", "member", "header"}

RunDropdowns ==
    {<<>>,
     <<[text |-> <<"A">>, value |-> Sentinel], [text |-> <<"B", " ">>, value |-> "v1"]>>,
     <<[text |-> <<"A">>, value |-> "v1"], [text |-> <<"B", " ">>, value |-> "v2"]>>}

RunPages ==
    {[v \in Values |-> NoTable],
     [v \in Values |-> IF v = "v1" THEN TablePage(SortedRows(WebRows)) ELSE NoTable]}

Init ==
    /\ InitWebState
    /\ dropdown \in RunDropdowns
    /\ pages \in RunPages
    /\ missing \in SUBSET Sources
    /\ prodCsv \in {<<>>, ScenarioProd}
    /\ headerCsv \in PlainHeaders

Spec == Init /\ [][Next]_vars

-----------------------------------------------------------------------------
(* Properties of load_and_process_data, stated on its inputs.              *)

Did(op, arg) == Event(op, arg) \in Range(events)

Loaded == pc = "tabs" /\ Did("derive", "")

ProdWells == {prodCsv[i].well_id : i \in 1..Len(prodCsv)}

RowsOf(w) == {i \in 1..Len(prodCsv) : prodCsv[i].well_id = w}

MaxProduction(w) ==
    CHOOSE m \in {prodCsv[i].production : i \in RowsOf(w)} :
        \A i \in RowsOf(w) : prodCsv[i].production <= m

\* The earliest row, in file order, that carries the well's largest production.
FirstMaxRow(w) ==
    CHOOSE i \in RowsOf(w) :
        /\ prodCsv[i].production = MaxProduction(w)
        /\ \A j \in RowsOf(w) : prodCsv[j].production = MaxProduction(w) => i <= j

MonthIndex(year, month) == year * 12 + month

\* The rows of the well whose month is the peak month or one of the next two.
WindowRows(w) ==
    LET s == MonthIndex(prodCsv[FirstMaxRow(w)].year, prodCsv[FirstMaxRow(w)].month)
    IN  {i \in RowsOf(w) :
            /\ s <= MonthIndex(prodCsv[i].year, prodCsv[i].month)
            /\ MonthIndex(prodCsv[i].year, prodCsv[i].month) < s + 3}

\* The production of the rows S of the file, added up.
RECURSIVE ProductionOver(_)
ProductionOver(S) ==
    IF S = {} THEN 0
    ELSE LET i == CHOOSE j \in S : TRUE
         IN  prodCsv[i].production + ProductionOver(S \ {i})

WindowSum(w) == ProductionOver(WindowRows(w))

PeakRowsOf(w) == {k \in 1..Len(peak.rows) : peak.rows[k]["well_id"] = w}

\* C1: for every well with at least one production row, the peak window's
\* start_date is the date of a row of that well that carries the maximum of
\* the well's series, and among tied rows it is the date of the one that comes
\* first in the row order of the production table.
C1_PeakStartIsFirstMaximum ==
    Loaded =>
        \A w \in ProdWells :
            /\ Cardinality(PeakRowsOf(w)) = 1
            /\ \A k \in PeakRowsOf(w) :
                  /\ peak.rows[k]["production"] = MaxProduction(w)
                  /\ peak.rows[k]["start_date"] =
                        <<prodCsv[FirstMaxRow(w)].year, prodCsv[FirstMaxRow(w)].month, 1>>

\* A well whose maximum is tied between two rows of different months, the
\* later month first in the file, and whose window starts at that first row.
C1_Witness ==
    /\ Loaded
    /\ \E w \in ProdWells : \E i, j \in RowsOf(w) :
          /\ i < j
          /\ prodCsv[i].production = MaxProduction(w)
          /\ prodCsv[j].production = MaxProduction(w)
          /\ MonthIndex(prodCsv[j].year, prodCsv[j].month)
                < MonthIndex(prodCsv[i].year, prodCsv[i].month)
          /\ \E k \in PeakRowsOf(w) :
                peak.rows[k]["start_date"] = <<prodCsv[i].year, prodCsv[i].month, 1>>

\* C2: every row of the merged table carries in post_peak_90_day the sum of
\* production over the rows of its well whose month lies in the three calendar
\* months that start at the well's peak month, so all rows of a well carry the
\* same value; the scenario 100, 500, 200, 50, 10 gives 750 on each of 5 rows.
C2_PostPeakIsWindowSum ==
    Loaded =>
        /\ HasCol(merged_df, "post_peak_90_day")
        /\ \A k \in 1..Len(merged_df.rows) :
              merged_df.rows[k]["post_peak_90_day"]
                 = Some(WindowSum(merged_df.rows[k]["well_id"]))
        /\ prodCsv = ScenarioProd =>
              /\ Len(merged_df.rows) = 5
              /\ \A k \in 1..5 : merged_df.rows[k]["post_peak_90_day"] = Some(750)

\* A well with a row before its peak month, rows inside the window and a row
\* exactly three months after the peak: every merged row of the well carries
\* the sum of the rows inside, which is more than the peak alone.
C2_Witness ==
    /\ Loaded
    /\ \E w \in ProdWells :
          /\ \E i, j \in RowsOf(w) :
                /\ MonthIndex(prodCsv[i].year, prodCsv[i].month)
                      < MonthIndex(prodCsv[FirstMaxRow(w)].year,
                                   prodCsv[FirstMaxRow(w)].month)
                /\ MonthIndex(prodCsv[j].year, prodCsv[j].month)
                      = MonthIndex(prodCsv[FirstMaxRow(w)].year,
                                   prodCsv[FirstMaxRow(w)].month) + 3
                /\ i \notin WindowRows(w)
                /\ j \notin WindowRows(w)
          /\ WindowSum(w) > MaxProduction(w)
          /\ Cardinality({k \in 1..Len(merged_df.rows) :
                             merged_df.rows[k]["well_id"] = w}) = Cardinality(RowsOf(w))
          /\ \A k \in 1..Len(merged_df.rows) :
                merged_df.rows[k]["well_id"] = w =>
                    merged_df.rows[k]["post_peak_90_day"] = Some(WindowSum(w))

HeaderWells == {headerCsv[i].well_id : i \in 1..Len(headerCsv)}

MatchedProd == SelectSeq(prodCsv, LAMBDA r : r.well_id \in HeaderWells)

PostPeakRowsOf(w) == {k \in 1..Len(post_peak.rows) : post_peak.rows[k]["well_id"] = w}

NonNegative(w) == \A i \in RowsOf(w) : prodCsv[i].production >= 0

\* C4: for every well with production rows, all of them >= 0, the window holds
\* the peak row, so the well's post_peak_90_day is present, never null, and at
\* least the well's maximum monthly production; with a single production row
\* it is that row's value.
C4_PostPeakPresentAndAtLeastMaximum ==
    Loaded =>
        \A w \in ProdWells :
            NonNegative(w) =>
                /\ FirstMaxRow(w) \in WindowRows(w)
                /\ Cardinality(PostPeakRowsOf(w)) = 1
                /\ \A k \in PostPeakRowsOf(w) :
                      /\ post_peak.rows[k]["production"] >= MaxProduction(w)
                      /\ Cardinality(RowsOf(w)) = 1 =>
                            post_peak.rows[k]["production"] = MaxProduction(w)
                /\ \A k \in 1..Len(merged_df.rows) :
                      merged_df.rows[k]["well_id"] = w =>
                          /\ merged_df.rows[k]["post_peak_90_day"] # NaN
                          /\ merged_df.rows[k]["post_peak_90_day"][1] >= MaxProduction(w)
                          /\ Cardinality(RowsOf(w)) = 1 =>
                                merged_df.rows[k]["post_peak_90_day"][1]
                                   = prodCsv[FirstMaxRow(w)].production

\* One well with a single row, merged, and one whose sum exceeds its maximum.
C4_Witness ==
    /\ Loaded
    /\ \E w \in ProdWells :
          /\ NonNegative(w)
          /\ Cardinality(RowsOf(w)) = 1
          /\ \E k \in 1..Len(merged_df.rows) :
                /\ merged_df.rows[k]["well_id"] = w
                /\ merged_df.rows[k]["post_peak_90_day"] = Some(MaxProduction(w))
    /\ \E w \in ProdWells :
          /\ NonNegative(w)
          /\ \E k \in PostPeakRowsOf(w) :
                post_peak.rows[k]["production"] > MaxProduction(w)

\* The day number of a calendar date, counted month by month.
RECURSIVE DaysBeforeMonth(_, _)
DaysBeforeMonth(y, m) ==
    IF m = 1 THEN 0 ELSE DaysBeforeMonth(y, m - 1) + DaysInMonth(y, m - 1)

RECURSIVE DaysBeforeYear(_)
DaysBeforeYear(y) ==
    IF y <= 2019 THEN 0 ELSE DaysBeforeYear(y - 1) + (IF IsLeap(y - 1) THEN 366 ELSE 365)

DayNumber(d) == DaysBeforeYear(d[1]) + DaysBeforeMonth(d[1], d[2]) + d[3]

\* C8: for every header row, cycle_time is null when spud_date or
\* completion_date is null or unparseable, and otherwise completion_date minus
\* spud_date in whole days, sign kept: an earlier completion gives a negative
\* value; spud 2020-01-01 and completion 2020-03-01 give 60.
C8_CycleTimeIsSignedDayDifference ==
    Loaded =>
        /\ Len(header_df.rows) = Len(headerCsv)
        /\ \A i \in 1..Len(headerCsv) :
              LET sp == ToDatetimeCell(headerCsv[i].spud_date)
                  cp == ToDatetimeCell(headerCsv[i].completion_date)
                  ct == header_df.rows[i]["cycle_time"]
              IN  /\ header_df.rows[i]["well_id"] = headerCsv[i].well_id
                  /\ (sp = NaT \/ cp = NaT) => ct = NaN
                  /\ (sp # NaT /\ cp # NaT) => ct = Some(DayNumber(cp) - DayNumber(sp))
                  /\ (headerCsv[i].spud_date = Txt_2020_01_01
                        /\ headerCsv[i].completion_date = Txt_2020_03_01) => ct = Some(60)
                  /\ (headerCsv[i].spud_date = Txt_2020_03_01
                        /\ headerCsv[i].completion_date = Txt_2020_01_01) => ct = Some(-60)
                  /\ headerCsv[i].spud_date \in {Txt_Empty, Txt_Garbage, Txt_2020_02_30}
                        => ct = NaN

\* One header row completed before it was spud, one with an unparseable date.
C8_Witness ==
    /\ Loaded
    /\ \E i, j \in 1..Len(header_df.rows) :
          /\ header_df.rows[i]["cycle_time"] = Some(-60)
          /\ headerCsv[j].completion_date = Txt_Garbage
          /\ headerCsv[j].spud_date = Txt_2020_01_01
          /\ header_df.rows[j]["cycle_time"] = NaN

-----------------------------------------------------------------------------
(* Properties of the harvest and of its cleaning.                          *)

Harvested == pc = "clean"

Cleaned == pc = "read_prod" /\ Did("clean", "")

\* The values requested by POST so far, in order.
Requested ==
    LET posts == SelectSeq(events, LAMBDA e : e.op = "POST")
    IN  [i \in 1..Len(posts) |-> posts[i].arg]

\* The dropdown's options other than the sentinel, in page order.
ValidOptions == SelectSeq(dropdown, LAMBDA o : o.value # Sentinel)

\* The table each valid option's request returns, tagged with that option's
\* display name, for the options whose response holds a table, in page order.
ExpectedHarvest ==
    LET withTable == SelectSeq(ValidOptions, LAMBDA o : pages[o.value].table)
    IN  ConcatFrames([i \in 1..Len(withTable) |->
                        TableFrame(pages[withTable[i].value], Strip(withTable[i].text))])

\* C6: the harvested table is the concatenation, in the order of the
\* dropdown's options, of the tables returned for every option whose value is
\* not the sentinel and whose response holds the table; an option without a
\* table adds nothing and raises nothing, the sentinel is never requested, and
\* every row carries the display name of the option whose request returned
\* it, also when two options share a display name.
C6_HarvestIsConcatenationOverOptions ==
    Harvested =>
        /\ error = "none"
        /\ Sentinel \notin Range(Requested)
        /\ raw_web_data = ExpectedHarvest

\* The frame clean_scraped_data works on, and its cells once typed.
HarvestedFrame == ConcatFrames(all_data)

TypedRows == NormalizeCells(HarvestedFrame).rows

WithoutYear(r) == [c \in DOMAIN r \ {"Completion Year"} |-> r[c]]

\* C7: deduplication compares rows on all columns, Formation included, and
\* removes every exact duplicate while keeping one instance: afterwards no two
\* rows are equal on all columns, every row of the table is still represented,
\* and a second deduplication changes neither the rows nor their order.
C7_DeduplicationKeepsOneOfEach ==
    Cleaned =>
        LET typed == TypedRows
            rows  == cleaned_web.rows
        IN  /\ \A i, j \in 1..Len(rows) : rows[i] = rows[j] => i = j
            /\ {WithoutYear(rows[k]) : k \in 1..Len(rows)} = Range(typed)
            /\ DropDuplicates(cleaned_web) = cleaned_web

\* A harvest in which one formation returns the same well twice, once with a
\* thousands separator, and another formation returns it too: the repeat
\* inside the formation goes, the row of the other formation stays.
C7_Witness ==
    /\ Cleaned
    /\ Len(TypedRows) > 2
    /\ Len(cleaned_web.rows) = 2
    /\ HarvestedFrame.rows[1]["Formation"] = HarvestedFrame.rows[2]["Formation"]
    /\ HarvestedFrame.rows[1]["Cum Oil"] # HarvestedFrame.rows[2]["Cum Oil"]
    /\ cleaned_web.rows[1]["Formation"] # cleaned_web.rows[2]["Formation"]
    /\ \A c \in ColSet(cleaned_web) \ {"Formation"} :
          cleaned_web.rows[1][c] = cleaned_web.rows[2][c]

-----------------------------------------------------------------------------
(* Properties of the whole run.                                            *)

\* C5: when no category yields a table, so that the harvest returns the empty
\* frame without columns, clean_scraped_data and the code after it treat it as
\* "no data" and complete without error, assuming none of the fixed columns.
C5_EmptyHarvestCompletesWithoutError ==
    (raw_web_data = EmptyFrame /\ pc \notin {"fetch", "post", "clean"}) =>
        /\ Did("clean", "")
        /\ ~Did("raise", "Completion Date")

Reported ==
    \E i \in 1..Len(events) :
        /\ events[i].op = "raise"
        /\ events[i].arg \in {"monthly_production.csv.zip", "monthly_production.csv",
                              "well_header.csv"}

\* C9 as the specification states it: with a required local source missing,
\* nothing is computed before the failure is reported: no harvest request, no
\* cleaning, no parse of the other file, no derivation or merge.
C9_NothingBeforeMissingSourceReported ==
    (missing # {} /\ ~Reported) => events = <<>>

\* The file name with which the first absent source, in the order the loader
\* opens them, is reported.
FirstMissingSource ==
    IF "zip" \in missing THEN "monthly_production.csv.zip"
    ELSE IF "member" \in missing THEN "monthly_production.csv"
    ELSE "well_header.csv"

\* C9 as the code has it: with a required local source missing the run never
\* completes and no derivation or merge step ever happens; once the run has
\* passed the cleaning it ends in load_and_process_data with the first absent
\* source reported, a missing archive or member before any file is parsed, a
\* missing header file after the production file is parsed; and whenever the
\* missing source is reported, the harvest requests and the cleaning came
\* before it.
C9_MissingSourceStopsBeforeDerivation ==
    missing # {} =>
        /\ pc \notin {"tabs", "done"}
        /\ ~Did("derive", "")
        /\ merged_df = EmptyFrame /\ peak = EmptyFrame /\ post_peak = EmptyFrame
        /\ ~HasCol(header_df, "cycle_time")
        /\ (missing \cap {"zip", "member"} # {}) => ~Did("parse", "monthly_production.csv")
        /\ ~Did("parse", "well_header.csv")
        /\ (pc = "failed" /\ Did("clean", "")) =>
              /\ events[Len(events)] = Event("raise", FirstMissingSource)
              /\ error \in {"FileNotFoundError", "KeyError"}
        /\ Reported =>
              /\ pc = "failed"
              /\ events[1] = Event("GET", "")
              /\ Did("clean", "")
              /\ (missing = {"header"}) => Did("parse", "monthly_production.csv")

\* The header file alone is absent: the page was fetched, a category
\* requested, the harvest cleaned and the production file parsed before the
\* run ends with the header file reported.
C9_Witness ==
    /\ missing = {"header"}
    /\ pc = "failed"
    /\ error = "FileNotFoundError"
    /\ Requested # <<>>
    /\ Did("clean", "")
    /\ Did("parse", "monthly_production.csv")
    /\ events[Len(events)] = Event("raise", "well_header.csv")

\* C10: every row of the merged table carries under the name production its
\* own monthly value, beside the header fields and post_peak_90_day; merging
\* the per-well sum does not rename the monthly column, so the per-county
\* aggregation of the second tab, which reads merged_df['production'], finds it.
C10_MergedKeepsProductionColumn ==
    Did("derive", "") =>
        /\ HasCol(merged_df, "production")
        /\ HasCol(merged_df, "post_peak_90_day")
        /\ HasCol(merged_df, "county")
        /\ ~Did("raise", "production")

====
